---- MODULE Spec2Model ----
(***************************************************************************)
(* Model of calculate_I.py: the second Chebyshev function psi (sieve and   *)
(* direct summation below 1000, the truncated explicit formula over the    *)
(* zero list from 1000 on), the weighted integrand, the segmented integral *)
(* I(T, sigma) and the log-log fit of C(sigma).                            *)
(*                                                                         *)
(* Numbers.  A Python float / numpy float64 is modelled as a decimal       *)
(* floating-point number  m * 10^e  with an eight-digit mantissa           *)
(* (10^7 <= |m| < 10^8, or m = 0), results truncated toward zero, together *)
(* with the IEEE specials nan, +inf, -inf that numpy produces instead of   *)
(* raising.  A Python exception that nothing catches is modelled as the    *)
(* absorbing value "raise": every operation on it yields it again, the     *)
(* way the exception unwinds through every caller.                         *)
(***************************************************************************)
EXTENDS Integers, Sequences, FiniteSets, TLC

VARIABLES gamma_values, generator, pc, call, result, again

vars == <<gamma_values, generator, pc, call, result, again>>

-----------------------------------------------------------------------------
(* Calls.  Apply(f, args) is the call of f with the arguments args, where  *)
(* f is a function or method of the program, a numpy function, or one of   *)
(* the float operators "+", "*", "/"; its definition, after the last       *)
(* callee, lists the callees.                                              *)

RECURSIVE Apply(_, _)

-----------------------------------------------------------------------------
(* Decimal floating point                                                  *)

MantLo == 1000 * 10000
MantHi == 10000 * 10000
Half == 100 * 100

Fin(m, e) == [k |-> "fin", m |-> m, e |-> e]
NaN == [k |-> "nan", m |-> 0, e |-> 0]
PInf == [k |-> "pinf", m |-> 0, e |-> 0]
NInf == [k |-> "ninf", m |-> 0, e |-> 0]
Raise == [k |-> "raise", m |-> 0, e |-> 0]
\* a complex result (a negative base raised to a fractional power)
Cplx == [k |-> "cplx", m |-> 0, e |-> 0]
Zero == Fin(0, 0)

\* Sequencing: the value first is computed before second, which uses it
After(first, second) == IF first = first THEN second ELSE first

Abs(i) == IF i < 0 THEN -i ELSE i
Sgn(i) == IF i < 0 THEN -1 ELSE IF i > 0 THEN 1 ELSE 0

\* 10^d for 0 <= d <= 9
Pow10(d) == << 1, 10, 100, 1000, 10000, 100000, 1000000, MantLo, MantHi, 10 * MantHi >>[d + 1]

\* the number of decimal digits of a, 1 <= a < 2^31
Digits(a) ==
    IF a < 10000
    THEN (IF a < 100 THEN (IF a < 10 THEN 1 ELSE 2) ELSE (IF a < 1000 THEN 3 ELSE 4))
    ELSE IF a < MantHi
    THEN (IF a < 1000000 THEN (IF a < 100000 THEN 5 ELSE 6) ELSE (IF a < MantLo THEN 7 ELSE 8))
    ELSE (IF a < 10 * MantHi THEN 9 ELSE 10)

\* sign s, magnitude a, exponent e: the mantissa brought to eight digits
NormMag(s, a, e) ==
    IF a = 0 THEN Zero
    ELSE LET n == Digits(a)
         IN  IF n > 8 THEN Fin(s * (a \div Pow10(n - 8)), e + (n - 8))
             ELSE Fin(s * (a * Pow10(8 - n)), e - (8 - n))

Norm(m, e) == NormMag(Sgn(m), Abs(m), e)

FromInt(i) == Norm(i, 0)

IsFin(a) == a.k = "fin"
IsZero(a) == a.k = "fin" /\ a.m = 0

FNeg(a) ==
    CASE a.k = "fin" -> Fin(-a.m, a.e)
      [] a.k = "pinf" -> NInf
      [] a.k = "ninf" -> PInf
      [] OTHER -> a

\* sign of a finite or infinite value: -1, 0, 1
FSign(a) ==
    CASE a.k = "pinf" -> 1
      [] a.k = "ninf" -> -1
      [] OTHER -> Sgn(a.m)

\* magnitude of a mantissa shifted right by d decimal digits
ShiftMag(a, d) == IF d > 9 THEN 0 ELSE a \div Pow10(d)

AddFin(a, b) ==
    IF a.m = 0 THEN b
    ELSE IF b.m = 0 THEN a
    ELSE LET e == (IF a.e >= b.e THEN a.e ELSE b.e) - 1
             am == Sgn(a.m) * ShiftMag(Abs(a.m) * 10, e + 1 - a.e)
             bm == Sgn(b.m) * ShiftMag(Abs(b.m) * 10, e + 1 - b.e)
         IN  Norm(am + bm, e)

AddFloat(a, b) ==
    CASE a.k = "raise" \/ b.k = "raise" -> Raise
      [] a.k = "cplx" \/ b.k = "cplx" -> Cplx
      [] a.k = "nan" \/ b.k = "nan" -> NaN
      [] a.k = "fin" /\ b.k = "fin" -> AddFin(a, b)
      [] a.k = "fin" -> b
      [] b.k = "fin" -> a
      [] a.k = b.k -> a
      [] OTHER -> NaN

FAdd(a, b) == Apply("+", << a, b >>)

FSub(a, b) == FAdd(a, FNeg(b))

MulFin(a, b) ==
    LET x == Abs(a.m)
        y == Abs(b.m)
        xh == x \div Half
        xl == x % Half
        yh == y \div Half
        yl == y % Half
        top == xh * yh + (xh * yl + xl * yh + (xl * yl) \div Half) \div Half
    IN  NormMag(Sgn(a.m) * Sgn(b.m), top, a.e + b.e + 8)

MulFloat(a, b) ==
    CASE a.k = "raise" \/ b.k = "raise" -> Raise
      [] a.k = "cplx" \/ b.k = "cplx" -> Cplx
      [] a.k = "nan" \/ b.k = "nan" -> NaN
      [] a.k = "fin" /\ b.k = "fin" -> MulFin(a, b)
      [] IsZero(a) \/ IsZero(b) -> NaN
      [] FSign(a) * FSign(b) > 0 -> PInf
      [] OTHER -> NInf

FMul(a, b) == Apply("*", << a, b >>)

\* x / d to eight decimal places, as an integer: schoolbook long division,
\* one digit of the quotient from each remainder
LongDiv(x, d) ==
    LET r0 == x % d
        r1 == (r0 * 10) % d
        r2 == (r1 * 10) % d
        r3 == (r2 * 10) % d
        r4 == (r3 * 10) % d
        r5 == (r4 * 10) % d
        r6 == (r5 * 10) % d
        r7 == (r6 * 10) % d
    IN  (x \div d) * MantHi + ((r0 * 10) \div d) * MantLo
        + ((r1 * 10) \div d) * 1000000 + ((r2 * 10) \div d) * 100000
        + ((r3 * 10) \div d) * 10000 + ((r4 * 10) \div d) * 1000
        + ((r5 * 10) \div d) * 100 + ((r6 * 10) \div d) * 10 + (r7 * 10) \div d

DivFin(a, b) ==
    LET x == Abs(a.m)
        y == Abs(b.m)
    IN  NormMag(Sgn(a.m) * Sgn(b.m), LongDiv(x, y), a.e - b.e - 8)

\* numpy division: a zero divisor gives inf or nan (with a warning), never raises
DivFloat(a, b) ==
    CASE a.k = "raise" \/ b.k = "raise" -> Raise
      [] a.k = "cplx" \/ b.k = "cplx" -> Cplx
      [] a.k = "nan" \/ b.k = "nan" -> NaN
      [] a.k = "fin" /\ b.k = "fin" ->
            IF b.m = 0
            THEN IF a.m = 0 THEN NaN ELSE IF a.m > 0 THEN PInf ELSE NInf
            ELSE IF a.m = 0 THEN Zero ELSE DivFin(a, b)
      [] a.k = "fin" -> Zero
      [] b.k = "fin" -> IF FSign(a) * (IF b.m < 0 THEN -1 ELSE 1) > 0 THEN PInf ELSE NInf
      [] OTHER -> NaN

NpDiv(a, b) == Apply("/", << a, b >>)

\* Python float division: a zero divisor raises ZeroDivisionError
PyDiv(a, b) == IF IsZero(b) /\ a.k # "raise" THEN Raise ELSE NpDiv(a, b)

\* a < b for finite a, b
LtFin(a, b) ==
    LET sa == Sgn(a.m)
        sb == Sgn(b.m)
    IN  IF sa # sb THEN sa < sb
        ELSE IF sa = 0 THEN FALSE
        ELSE IF sa > 0
             THEN a.e < b.e \/ (a.e = b.e /\ a.m < b.m)
             ELSE a.e > b.e \/ (a.e = b.e /\ a.m < b.m)

\* comparisons: every comparison with nan is false
FLt(a, b) ==
    CASE a.k \in {"nan", "raise", "cplx"} \/ b.k \in {"nan", "raise", "cplx"} -> FALSE
      [] a.k = "fin" /\ b.k = "fin" -> LtFin(a, b)
      [] OTHER -> FSign(a) < FSign(b) /\ a.k # b.k

FLe(a, b) ==
    CASE a.k \in {"nan", "raise", "cplx"} \/ b.k \in {"nan", "raise", "cplx"} -> FALSE
      [] OTHER -> a = b \/ FLt(a, b)

FGt(a, b) == FLt(b, a)
FGe(a, b) == FLe(b, a)

\* abs(): the modulus of a complex value is a float again
FAbs(a) == IF a.k = "cplx" THEN NaN ELSE IF FSign(a) < 0 THEN FNeg(a) ELSE a

\* int(x) for a finite x: truncation toward zero
FloorInt(a) ==
    IF a.m = 0 THEN 0
    ELSE IF a.e >= 0 THEN a.m * Pow10(a.e)
    ELSE Sgn(a.m) * ShiftMag(Abs(a.m), -a.e)

\* nearest integer to a finite x
RoundInt(a) ==
    LET h == AddFin(FAbs(a), Fin(50000000, -8))
    IN  Sgn(a.m) * FloorInt(h)

-----------------------------------------------------------------------------
(* Elementary functions: numpy's log, exp, cos and sin, Python's power     *)

One == Fin(10000000, -7)
Two == Fin(20000000, -7)
HalfF == Fin(50000000, -8)
LN2 == Fin(69314718, -8)
LN10 == Fin(23025851, -7)
np_pi == Fin(31415927, -7)
TWO_PI == FMul(Two, np_pi)

\* mu in [1, 10) halved until it lies in [1, 2): <<mu', number of halvings>>
RECURSIVE LnReduce(_, _)
LnReduce(mu, k) ==
    IF FGe(mu, Two) THEN LnReduce(FMul(mu, HalfF), k + 1) ELSE <<mu, k>>

\* sum over j < n of  z^(2j+1) / (2j+1), with pw = z^(2j+1) and d = 2j+1
RECURSIVE AtanhSeries(_, _, _, _, _)
AtanhSeries(pw, z2, d, acc, n) ==
    IF n = 0 \/ IsZero(pw) \/ ~IsFin(acc) THEN acc
    ELSE AtanhSeries(FMul(pw, z2), z2, d + 2,
                     FAdd(acc, NpDiv(pw, FromInt(d))), n - 1)

LnPos(a) ==
    LET red == LnReduce(Fin(a.m, -7), 0)
        mu == red[1]
        z == NpDiv(FSub(mu, One), FAdd(mu, One))
        ser == AtanhSeries(z, FMul(z, z), 1, Zero, 10)
    IN  FAdd(FAdd(FMul(FromInt(a.e + 7), LN10), FMul(FromInt(red[2]), LN2)),
             FMul(Two, ser))

\* np.log: log(0) = -inf and log(negative) = nan, with a warning and no exception
np_log(a) ==
    CASE a.k = "fin" -> IF a.m > 0 THEN LnPos(a) ELSE IF a.m = 0 THEN NInf ELSE NaN
      [] a.k = "ninf" -> NaN
      [] OTHER -> a

\* sum over j < n of r^j / j!, with term = r^j / j!
RECURSIVE ExpSeries(_, _, _, _, _)
ExpSeries(term, r, j, acc, n) ==
    IF n = 0 \/ IsZero(term) \/ ~IsFin(acc) THEN acc
    ELSE ExpSeries(NpDiv(FMul(term, r), FromInt(j + 1)), r, j + 1,
                   FAdd(acc, term), n - 1)

ExpFin(a) ==
    LET n == RoundInt(NpDiv(a, LN10))
        r == FSub(a, FMul(FromInt(n), LN10))
        s == ExpSeries(One, r, 0, Zero, 16)
    IN  Fin(s.m, s.e + n)

np_exp(a) ==
    CASE a.k = "fin" -> ExpFin(a)
      [] a.k = "ninf" -> Zero
      [] OTHER -> a

\* the argument reduced to [-pi, pi]
AngleReduce(t) == FSub(t, FMul(FromInt(RoundInt(NpDiv(t, TWO_PI))), TWO_PI))

\* alternating series: term_{j+1} = -term_j * r^2 / ((d+1)(d+2))
RECURSIVE TrigSeries(_, _, _, _, _)
TrigSeries(term, r2, d, acc, n) ==
    IF n = 0 \/ IsZero(term) \/ ~IsFin(acc) THEN acc
    ELSE TrigSeries(FNeg(NpDiv(FMul(term, r2), FromInt((d + 1) * (d + 2)))),
                    r2, d + 2, FAdd(acc, term), n - 1)

np_cos(t) ==
    IF t.k # "fin" THEN (IF t.k \in {"raise", "cplx"} THEN t ELSE NaN)
    ELSE LET r == AngleReduce(t)
             r2 == FMul(r, r)
         IN  After(r2, TrigSeries(One, r2, 0, Zero, 12))

np_sin(t) ==
    IF t.k # "fin" THEN (IF t.k \in {"raise", "cplx"} THEN t ELSE NaN)
    ELSE LET r == AngleReduce(t)
             r2 == FMul(r, r)
         IN  After(r2, TrigSeries(r, r2, 1, Zero, 12))

\* x ** y for a Python float x > 0
PowPos(x, y) == Apply("np_exp", << FMul(y, Apply("np_log", << x >>)) >>)

-----------------------------------------------------------------------------
(* ChebyshevFunction                                                       *)

\* the ten literal ordinates, to eight digits
known_gammas ==
    << Fin(14134725, -6), Fin(21022039, -6), Fin(25010857, -6),
       Fin(30424876, -6), Fin(32935061, -6), Fin(37586178, -6),
       Fin(40918719, -6), Fin(43327073, -6), Fin(48005150, -6),
       Fin(49773832, -6) >>

\* for i in range(10, 100)
RangeStart == 10
RangeStop == 100

\* approx_gamma = 2 * np.pi * n / np.log(n / (2 * np.pi))
approx_gamma(n) ==
    NpDiv(FMul(FMul(Two, np_pi), FromInt(n)),
          Apply("np_log", << NpDiv(FromInt(n), FMul(Two, np_pi)) >>))

\* known_gammas, then one appended entry for each i of the range, n = i + 1
_get_approximate_gamma_values ==
    known_gammas \o [j \in 1..(RangeStop - RangeStart) |-> approx_gamma(RangeStart + j)]

\* int(np.sqrt(n)): the square root is correctly rounded, so this is the
\* integer square root for every n in range
Isqrt(n) == CHOOSE r \in 0..n : r * r <= n /\ (r + 1) * (r + 1) > n

\* variant: the slice starts one multiple late, sieve[i*i + i : n+1 : i]
MarkMultiplesLate(sieve, i, n) ==
    [j \in 0..n |-> IF j >= i * i + i /\ (j - i * i) % i = 0 THEN FALSE ELSE sieve[j]]

\* sieve[i*i : n+1 : i] = [False] * len(...)
MarkMultiples(sieve, i, n) ==
    [j \in 0..n |-> IF j >= i * i /\ (j - i * i) % i = 0 THEN FALSE ELSE sieve[j]]

\* one iteration: if sieve[i]: the slice assignment
SieveStep(sieve, i, n) == IF sieve[i] THEN MarkMultiples(sieve, i, n) ELSE sieve

\* for i in range(2, int(np.sqrt(n)) + 1): the iterations i = lo..hi in order
RECURSIVE SieveLoop(_, _, _, _)
SieveLoop(sieve, lo, hi, n) ==
    IF lo > hi THEN sieve
    ELSE IF lo = hi THEN SieveStep(sieve, lo, n)
    ELSE LET mid == (lo + hi) \div 2
             left == SieveLoop(sieve, lo, mid, n)
         IN  After(left, SieveLoop(left, mid + 1, hi, n))

\* [i for i, is_prime in enumerate(sieve) if is_prime], over indices lo..hi
RECURSIVE Collect(_, _, _)
Collect(sieve, lo, hi) ==
    IF lo > hi THEN << >>
    ELSE IF lo = hi THEN (IF sieve[lo] THEN << lo >> ELSE << >>)
    ELSE LET mid == (lo + hi) \div 2
         IN  Collect(sieve, lo, mid) \o Collect(sieve, mid + 1, hi)

\* variant: range(2, int(np.sqrt(n))), the + 1 forgotten
SieveStopShort(n) == Isqrt(n)

\* the exclusive stop of range(2, int(np.sqrt(n)) + 1)
SieveStop(n) == Isqrt(n) + 1

_sieve_of_eratosthenes(n) ==
    IF n < 2 THEN << >>
    ELSE LET sieve0 == [j \in 0..n |-> j >= 2]
         IN  Collect(SieveLoop(sieve0, 2, SieveStop(n) - 1, n), 0, n)

\* x < 1000 selects direct summation
Threshold == 1000

\* np.log(p) for the integers direct summation can meet
LogInt == [p \in 1..Threshold |-> Apply("np_log", << FromInt(p) >>)]

\* variant: while p**k < x
RECURSIVE PowerLoopStrict(_, _, _, _)
PowerLoopStrict(p, pk, x, acc) ==
    IF FLt(FromInt(pk), x)
    THEN LET next == [val |-> FAdd(acc.val, LogInt[p]), logs |-> Append(acc.logs, p)]
         IN  After(next, PowerLoopStrict(p, pk * p, x, next))
    ELSE acc

\* while p**k <= x: result += np.log(p); k += 1
\* acc.val is result; acc.logs records, in order, the p of every addition
RECURSIVE PowerLoop(_, _, _, _)
PowerLoop(p, pk, x, acc) ==
    IF FLe(FromInt(pk), x)
    THEN LET next == [val |-> FAdd(acc.val, LogInt[p]), logs |-> Append(acc.logs, p)]
         IN  After(next, PowerLoop(p, pk * p, x, next))
    ELSE acc

\* for p in primes, over the primes at positions lo..hi in order
RECURSIVE PrimeLoop(_, _, _, _, _)
PrimeLoop(primes, lo, hi, x, acc) ==
    IF lo > hi THEN acc
    ELSE IF lo = hi THEN PowerLoop(primes[lo], primes[lo], x, acc)
    ELSE LET mid == (lo + hi) \div 2
             left == PrimeLoop(primes, lo, mid, x, acc)
         IN  After(left, PrimeLoop(primes, mid + 1, hi, x, left))

_direct_psi(x) ==
    LET primes == _sieve_of_eratosthenes(FloorInt(x))
    IN  PrimeLoop(primes, 1, Len(primes), x, [val |-> Zero, logs |-> << >>])

\* min(x, 1000)
CutoffCap == 1000
\* variant: a cap that lies inside the range of the ordinates, min(x, 120)
CutoffLow(x) == IF FLt(FromInt(120), x) THEN FromInt(120) ELSE x

Cutoff(x) == IF FLt(FromInt(CutoffCap), x) THEN FromInt(CutoffCap) ELSE x

beta == HalfF
constant_term == Fin(46191417, -9)

\* term = np.exp(rho * np.log(x)) / rho  with  rho = beta + 1j * gamma,
\* given lx = np.log(x).  numpy signals overflow with a warning, not an
\* exception, so the except branch is never taken for a float x.
ZeroTerm(lx, gamma) ==
    LET mag == Apply("np_exp", << FMul(beta, lx) >>)
        cos == Apply("np_cos", << FMul(gamma, lx) >>)
        sin == Apply("np_sin", << FMul(gamma, lx) >>)
        u == FMul(mag, cos)
        v == FMul(mag, sin)
        den == FAdd(FMul(beta, beta), FMul(gamma, gamma))
    IN  After(<< mag, cos, sin, u, v, den >>,
              [re |-> NpDiv(FAdd(FMul(u, beta), FMul(v, gamma)), den),
               im |-> NpDiv(FSub(FMul(v, beta), FMul(u, gamma)), den)])

\* one iteration of  for gamma in self.gamma_values, where term is the
\* value of the iteration's term
ZeroStep(gamma, term, T, acc) ==
    IF acc.stop THEN acc
    ELSE IF FGt(gamma, T) THEN [acc EXCEPT !.stop = TRUE]
    ELSE [re |-> FAdd(acc.re, term.re), im |-> FAdd(acc.im, term.im),
          used |-> Append(acc.used, gamma), stop |-> FALSE]

\* the iterations over the list positions lo..hi, in stored order;
\* terms[i] is the term of position i
RECURSIVE ZeroLoop(_, _, _, _, _, _)
ZeroLoop(gv, lo, hi, terms, T, acc) ==
    IF lo > hi THEN acc
    ELSE IF lo = hi THEN ZeroStep(gv[lo], terms[lo], T, acc)
    ELSE LET mid == (lo + hi) \div 2
             left == ZeroLoop(gv, lo, mid, terms, T, acc)
         IN  After(left, ZeroLoop(gv, mid + 1, hi, terms, T, left))

\* psi, with the record of what it accumulated: logs (the primes whose log
\* was added, in order) and used (the ordinates that contributed a term)
psi(self, x) ==
    IF FLt(x, Two) THEN [val |-> Zero, logs |-> << >>, used |-> << >>]
    ELSE IF FLt(x, FromInt(Threshold))
    THEN LET d == _direct_psi(x)
         IN  [val |-> d.val, logs |-> d.logs, used |-> << >>]
    ELSE LET T == Cutoff(x)
             lx == Apply("np_log", << x >>)
             \* the term of each ordinate, a function of x and the ordinate only
             terms == [i \in 1..Len(self.gamma_values) |->
                          IF FGt(self.gamma_values[i], T) THEN [re |-> Zero, im |-> Zero]
                          ELSE ZeroTerm(lx, self.gamma_values[i])]
             sum == ZeroLoop(self.gamma_values, 1, Len(self.gamma_values), terms, T,
                             [re |-> Zero, im |-> Zero, used |-> << >>, stop |-> FALSE])
             \* sum_term += np.conj(sum_term)
             real == FAdd(sum.re, sum.re)
         IN  After(<< terms, sum >>,
                   [val |-> FSub(FSub(x, real), constant_term),
                    logs |-> << >>, used |-> sum.used])

-----------------------------------------------------------------------------
(* WeightedMeanSquareError                                                 *)

\* Python's x ** y
PyPow(x, y) ==
    CASE x.k # "fin" \/ y.k # "fin" -> (IF x.k = "raise" \/ y.k = "raise" THEN Raise ELSE NaN)
      [] x.m > 0 -> PowPos(x, y)
      [] x.m = 0 -> IF y.m = 0 THEN One ELSE IF y.m > 0 THEN Zero ELSE Raise
      [] OTHER ->
            IF y.e < -8 \/ FromInt(FloorInt(y)) # y THEN Cplx
            ELSE IF FloorInt(y) % 2 = 0 THEN PowPos(FNeg(x), y)
            ELSE FNeg(PowPos(FNeg(x), y))

\* delta(x) = psi(x) - x
delta(self, x) ==
    LET psi_x == Apply("psi", << self.chebyshev, x >>)
    IN  After(psi_x, FSub(psi_x.val, x))

\* variant: delta_x is not squared
integrand_unsquared(self, x, T, sigma) ==
    IF FLe(x, Zero) THEN Zero
    ELSE LET delta_x == delta(self, x)
             q == PyDiv(x, T)
             weight == Apply("np_exp", << FNeg(FMul(q, q)) >>)
             denominator == PyPow(x, FAdd(One, sigma))
         IN  After(<< delta_x, weight, denominator >>,
                   NpDiv(FMul(delta_x, weight), denominator))

integrand(self, x, T, sigma) ==
    IF FLe(x, Zero) THEN Zero
    ELSE LET delta_x == delta(self, x)
             q == PyDiv(x, T)
             weight == Apply("np_exp", << FNeg(FMul(q, q)) >>)
             denominator == PyPow(x, FAdd(One, sigma))
         IN  After(<< delta_x, weight, denominator >>,
                   NpDiv(FMul(FMul(delta_x, delta_x), weight), denominator))

\* scipy's quad(f, a, b): the adaptive rule is represented by a rule with one
\* interior node and the positive weight b - a
quad(self, a, b, T, sigma) ==
    LET value == integrand(self, FMul(HalfF, FAdd(a, b)), T, sigma)
    IN  After(value, FMul(FSub(b, a), value))

\* integration_limit = 5 * T;  split_integral(a, b, n=5)
LimitFactor == 5
NumSegments == 5

\* points = np.linspace(a, b, n + 1)
linspace(a, b, n, i) ==
    IF i = n THEN b
    ELSE FAdd(a, FMul(FromInt(i), NpDiv(FSub(b, a), FromInt(n))))

\* for i in range(n): result += segment_result
\* (an exception in a segment ends the loop)
RECURSIVE split_integral(_, _, _, _, _, _, _, _)
split_integral(self, a, b, n, T, sigma, i, acc) ==
    IF i >= n \/ acc.k = "raise" THEN acc
    ELSE split_integral(self, a, b, n, T, sigma, i + 1,
             FAdd(acc, quad(self, linspace(a, b, n, i), linspace(a, b, n, i + 1),
                            T, sigma)))

\* integration_limit: [none |-> TRUE] for None, else [none |-> FALSE, v |-> limit]
None == [none |-> TRUE, v |-> Zero]
Some(v) == [none |-> FALSE, v |-> v]

calculate_I(self, T, sigma, integration_limit) ==
    LET limit == IF integration_limit.none THEN FMul(FromInt(LimitFactor), T)
                 ELSE integration_limit.v
    IN  split_integral(self, Zero, limit, NumSegments, T, sigma, 0, Zero)

-----------------------------------------------------------------------------
(* AsymptoticAnalysis                                                      *)

\* self.wmse.calculate_I(T, sigma): the weighted integral, or, when the
\* analysis runs on a synthetic integral generator, exactly C0 * T^(1 - 2 sigma)
synthetic_I(C0, T, sigma) == FMul(C0, PyPow(T, FSub(One, FMul(Two, sigma))))

wmse_calculate_I(wmse, T, sigma) ==
    IF wmse.kind = "synthetic" THEN synthetic_I(wmse.C0, T, sigma)
    ELSE Apply("calculate_I", << wmse, T, sigma, None >>)

\* I_values = [calculate_I(T, sigma) for T in T_values]
I_values_of(self, sigma, T_values) ==
    [i \in 1..Len(T_values) |-> wmse_calculate_I(self.wmse, T_values[i], sigma)]

RECURSIVE SumSeq(_, _, _)
SumSeq(xs, i, acc) == IF i > Len(xs) THEN acc ELSE SumSeq(xs, i + 1, FAdd(acc, xs[i]))

AnyRaise(xs) == \E i \in 1..Len(xs) : xs[i].k = "raise"

\* np.mean: nan (with a warning) for an empty array
np_mean(xs) ==
    IF Len(xs) = 0 THEN NaN ELSE NpDiv(SumSeq(xs, 1, Zero), FromInt(Len(xs)))

\* variant: the slope 1 - sigma
slope_one_minus_sigma(sigma) == FSub(One, sigma)

theoretical_slope(sigma) == FSub(One, FMul(Two, sigma))

\* lines 214-225: the regression on the computed integrals
fit_from(sigma, T_values, I_values) ==
    IF AnyRaise(I_values) THEN Raise
    ELSE LET log_T == [i \in 1..Len(T_values) |-> Apply("np_log", << T_values[i] >>)]
             log_I == [i \in 1..Len(T_values) |-> Apply("np_log", << I_values[i] >>)]
             resid == [i \in 1..Len(T_values) |->
                          FSub(log_I[i], FMul(theoretical_slope(sigma), log_T[i]))]
             intercept == np_mean(resid)
         IN  After(resid, Apply("np_exp", << intercept >>))

fit_C(self, sigma, T_values) ==
    LET I_values == I_values_of(self, sigma, T_values)
    IN  After(I_values, fit_from(sigma, T_values, I_values))

\* one oscillation: abs(I - expected) / expected
oscillation(self, C, T, sigma) ==
    LET I == wmse_calculate_I(self.wmse, T, sigma)
        expected == FMul(C, PyPow(T, FSub(One, FMul(Two, sigma))))
    IN  After(<< I, expected >>, NpDiv(FAbs(FSub(I, expected)), expected))

\* the list of oscillations, or Raise when the call ends in an exception
analyze_oscillation(self, T_values, sigma) ==
    LET C == fit_C(self, sigma, T_values)
        oscillations == [i \in 1..Len(T_values) |-> oscillation(self, C, T_values[i], sigma)]
    IN  After(<< C, oscillations >>,
              IF C.k = "raise" \/ AnyRaise(oscillations) THEN Raise
              ELSE [k |-> "list", items |-> oscillations])

Apply(f, args) ==
    CASE f = "+" -> AddFloat(args[1], args[2])
      [] f = "*" -> MulFloat(args[1], args[2])
      [] f = "/" -> DivFloat(args[1], args[2])
      [] f = "np_log" -> np_log(args[1])
      [] f = "np_exp" -> np_exp(args[1])
      [] f = "np_cos" -> np_cos(args[1])
      [] f = "np_sin" -> np_sin(args[1])
      [] f = "psi" -> psi(args[1], args[2])
      [] f = "integrand" -> integrand(args[1], args[2], args[3], args[4])
      [] f = "calculate_I" -> calculate_I(args[1], args[2], args[3], args[4])
      [] f = "fit_C" -> fit_C(args[1], args[2], args[3])
      [] f = "analyze_oscillation" -> analyze_oscillation(args[1], args[2], args[3])

-----------------------------------------------------------------------------
(* The session: an analyzer is constructed, then its operations are called *)
(* one at a time; each call runs to completion and returns to the caller.  *)
(*   gamma_values  the ChebyshevFunction's zero list                       *)
(*   generator     what the analysis integrates: the quadrature, or a      *)
(*                 synthetic integral generator C0 * T^(1 - 2 sigma)       *)
(*   pc            "idle", "returned" (a call has returned result), or     *)
(*                 "repeated" (the same call was made again, giving again) *)

MaxHalfX == 130
MaxN == 150

\* the float i / 2
X(i) == Norm(i * 5, -1)

\* arguments around the switch at 1000 and beyond it
LargeXInputs ==
    { FromInt(997), Fin(99950000, -5), FromInt(1000), Fin(10005000, -4),
      FromInt(1001), FromInt(5000) }

XInputs == {X(i) : i \in -2..MaxHalfX} \cup LargeXInputs
SigmaInputs == {FromInt(-2), FromInt(-1), Fin(30000000, -8), HalfF, One}
TInputs == {FromInt(-1), Zero, FromInt(2), FromInt(250)}
LimitInputs == {None, Some(FromInt(10)), Some(FromInt(-5))}
IntegrandXInputs == {FromInt(-1), Zero, HalfF, FromInt(3), FromInt(1001)}
TListInputs ==
    { << >>, << One >>, << FromInt(2), FromInt(3) >>,
      << One, FromInt(2), FromInt(3) >>, << Zero >>,
      << FromInt(-1), FromInt(2) >>, << FromInt(2), Zero >> }
C0Inputs == {HalfF, One, FromInt(3), Fin(73000000, -7)}
SyntheticSigmaInputs == SigmaInputs \cup {Zero, Fin(80000000, -8)}
SyntheticTListInputs == TListInputs \cup {<< FromInt(100), FromInt(316), FromInt(1000) >>}

NoCall == [op |-> "none"]
NoResult == [k |-> "none"]

\* self of each object, read from the state
chebyshev == [gamma_values |-> gamma_values]
wmse == IF generator.kind = "synthetic" THEN generator
        ELSE [kind |-> "quad", chebyshev |-> chebyshev]
analyzer == [wmse |-> wmse]

\* the value the call c returns in the current state
Invoke(c) ==
    CASE c.op = "psi" -> Apply("psi", << chebyshev, c.x >>)
      [] c.op = "sieve" -> _sieve_of_eratosthenes(c.n)
      [] c.op = "integrand" -> Apply("integrand", << wmse, c.x, c.T, c.sigma >>)
      [] c.op = "calculate_I" -> Apply("calculate_I", << wmse, c.T, c.sigma, c.limit >>)
      [] c.op = "fit_C" -> Apply("fit_C", << analyzer, c.sigma, c.T_values >>)
      [] c.op = "analyze_oscillation" ->
            Apply("analyze_oscillation", << analyzer, c.T_values, c.sigma >>)

\* ChebyshevFunction.__init__ has run
Init ==
    /\ gamma_values = _get_approximate_gamma_values
    /\ generator = [kind |-> "quad"]
    /\ pc = "idle"
    /\ call = NoCall
    /\ result = NoResult
    /\ again = NoResult

\* list.sort() on a list of floats: the entry of position j goes to rank[j],
\* the number of entries that sort before it or are it (the sort is stable)
SortList(s) ==
    LET rank == [j \in 1..Len(s) |->
                    Cardinality({k \in 1..Len(s) :
                        FLt(s[k], s[j]) \/ (s[k] = s[j] /\ k <= j)})]
    IN  After(rank, [i \in 1..Len(s) |-> s[CHOOSE j \in 1..Len(s) : rank[j] = i]])

\* variant: psi sorts the zero list in place before it iterates over it
PsiSorting ==
    /\ pc = "idle"
    /\ gamma_values' = SortList(gamma_values)
    /\ \E x \in XInputs :
          /\ call' = [op |-> "psi", x |-> x]
          /\ result' = Apply("psi", << [gamma_values |-> gamma_values'], x >>)
    /\ pc' = "returned"
    /\ UNCHANGED <<generator, again>>

Psi ==
    /\ pc = "idle"
    /\ \E x \in XInputs :
          /\ call' = [op |-> "psi", x |-> x]
          /\ result' = Apply("psi", << chebyshev, x >>)
    /\ pc' = "returned"
    /\ UNCHANGED <<gamma_values, generator, again>>

Sieve ==
    /\ pc = "idle"
    /\ \E n \in 0..MaxN :
          /\ call' = [op |-> "sieve", n |-> n]
          /\ result' = _sieve_of_eratosthenes(n)
    /\ pc' = "returned"
    /\ UNCHANGED <<gamma_values, generator, again>>

Integrand ==
    /\ pc = "idle"
    /\ generator.kind = "quad"
    /\ \E x \in IntegrandXInputs, T \in TInputs, sigma \in SigmaInputs :
          /\ call' = [op |-> "integrand", x |-> x, T |-> T, sigma |-> sigma]
          /\ result' = Apply("integrand", << wmse, x, T, sigma >>)
    /\ pc' = "returned"
    /\ UNCHANGED <<gamma_values, generator, again>>

CalculateI ==
    /\ pc = "idle"
    /\ generator.kind = "quad"
    /\ \E T \in TInputs, sigma \in SigmaInputs, limit \in LimitInputs :
          /\ call' = [op |-> "calculate_I", T |-> T, sigma |-> sigma, limit |-> limit]
          /\ result' = Apply("calculate_I", << wmse, T, sigma, limit >>)
    /\ pc' = "returned"
    /\ UNCHANGED <<gamma_values, generator, again>>

FitC ==
    /\ pc = "idle"
    /\ \E sigma \in (IF generator.kind = "quad" THEN SigmaInputs ELSE SyntheticSigmaInputs),
          T_values \in (IF generator.kind = "quad" THEN TListInputs ELSE SyntheticTListInputs) :
          /\ call' = [op |-> "fit_C", sigma |-> sigma, T_values |-> T_values]
          /\ result' = Apply("fit_C", << analyzer, sigma, T_values >>)
    /\ pc' = "returned"
    /\ UNCHANGED <<gamma_values, generator, again>>

AnalyzeOscillation ==
    /\ pc = "idle"
    /\ \E sigma \in (IF generator.kind = "quad" THEN SigmaInputs ELSE SyntheticSigmaInputs),
          T_values \in (IF generator.kind = "quad" THEN TListInputs ELSE SyntheticTListInputs) :
          /\ call' = [op |-> "analyze_oscillation", T_values |-> T_values, sigma |-> sigma]
          /\ result' = Apply("analyze_oscillation", << analyzer, T_values, sigma >>)
    /\ pc' = "returned"
    /\ UNCHANGED <<gamma_values, generator, again>>

\* the caller makes the same call again
Repeat ==
    /\ pc = "returned"
    /\ again' = Invoke(call)
    /\ pc' = "repeated"
    /\ UNCHANGED <<gamma_values, generator, call, result>>

\* the caller drops the result: nothing of a call persists
Return ==
    /\ pc \in {"returned", "repeated"}
    /\ pc' = "idle"
    /\ call' = NoCall
    /\ result' = NoResult
    /\ again' = NoResult
    /\ UNCHANGED <<gamma_values, generator>>

Next ==
    \/ Psi
    \/ Sieve
    \/ Integrand
    \/ CalculateI
    \/ FitC
    \/ AnalyzeOscillation
    \/ Repeat
    \/ Return

Spec == Init /\ [][Next]_vars

\* the analysis run on a synthetic integral generator (the round-trip test
\* of the regression)
InitSynthetic ==
    /\ gamma_values = _get_approximate_gamma_values
    /\ generator \in {[kind |-> "synthetic", C0 |-> c] : c \in C0Inputs}
    /\ pc = "idle"
    /\ call = NoCall
    /\ result = NoResult
    /\ again = NoResult

NextSynthetic ==
    \/ FitC
    \/ AnalyzeOscillation
    \/ Repeat
    \/ Return

SpecSynthetic == InitSynthetic /\ [][NextSynthetic]_vars

-----------------------------------------------------------------------------
(* Properties                                                              *)

\* a float compared with an integer
LeInt(a, i) == FLe(a, FromInt(i))
GtInt(a, i) == FGt(a, FromInt(i))

\* primality by trial division, independent of the sieve
IsPrimeDef(q) == q >= 2 /\ \A d \in 2..(q - 1) : q % d # 0

\* m is a power q^k, k >= 1, of the prime q: q divides every divisor of m
IsPowerOf(m, q) == m % q = 0 /\ \A d \in 2..m : m % d = 0 => d % q = 0

\* how often s holds q
CountIn(s, q) == Cardinality({i \in 1..Len(s) : s[i] = q})

Elements(s) == {s[i] : i \in 1..Len(s)}

\* the number of k >= 1 with q^k <= n for a prime q, and 0 for any other q
ExpectedCount(q, n) ==
    IF IsPrimeDef(q) THEN Cardinality({m \in q..n : IsPowerOf(m, q)}) ELSE 0

AllPositive(T_values) == \A i \in 1..Len(T_values) : GtInt(T_values[i], 0)

\* C1 (as stated): calculate_I with T <= 0 or 1 + sigma <= 0 ends in an
\* error; it never returns a number for such arguments.
C1_CalculateIRejectsBadDomain ==
    (pc # "idle" /\ call.op = "calculate_I"
        /\ (LeInt(call.T, 0) \/ LeInt(FAdd(One, call.sigma), 0)))
    => result.k = "raise"

\* C2: for 2 <= x < 1000, psi adds ln(q) exactly as many times as there are
\* k >= 1 with q^k <= x when q is a prime, and never for any other integer.
C2_DirectPsiCountsPrimePowers ==
    (pc # "idle" /\ call.op = "psi" /\ FGe(call.x, Two) /\ FLt(call.x, FromInt(1000)))
    => /\ Elements(result.logs) \subseteq 1..FloorInt(call.x)
       /\ \A q \in 1..FloorInt(call.x) :
              CountIn(result.logs, q) = ExpectedCount(q, FloorInt(call.x))

\* C2 witness: psi(10) has added ln 2 three times, ln 3 twice, ln 5 and ln 7 once.
C2_Witness ==
    /\ pc = "returned" /\ call.op = "psi" /\ call.x = FromInt(10)
    /\ result.logs = << 2, 2, 2, 3, 3, 5, 7 >>

\* C3: _sieve_of_eratosthenes(n) is the ascending list of exactly the primes
\* p with 2 <= p <= n, and is empty for n < 2.
C3_SieveReturnsPrimes ==
    (pc # "idle" /\ call.op = "sieve")
    => /\ \A i \in 1..Len(result) : result[i] \in 2..call.n /\ IsPrimeDef(result[i])
       /\ \A p \in 2..call.n : IsPrimeDef(p) => CountIn(result, p) = 1
       /\ \A i \in 1..(Len(result) - 1) : result[i] < result[i + 1]
       /\ (call.n < 2 => result = << >>)

\* C3 witness: the sieve has been run past a square of a prime (121 = 11 * 11)
\* and has returned 2, 3, 5, ..., up to the prime 127.
C3_Witness ==
    /\ pc = "returned" /\ call.op = "sieve" /\ call.n = 130
    /\ Len(result) = 31 /\ result[1] = 2 /\ result[31] = 127

\* C4 (as stated): the zero list is strictly increasing over all of its 100
\* entries.
C4_ZeroListStrictlyIncreasing ==
    /\ Len(gamma_values) = 100
    /\ \A i \in 1..(Len(gamma_values) - 1) : FLt(gamma_values[i], gamma_values[i + 1])

\* C5 (as stated): fit_C and analyze_oscillation end in an error whenever a T
\* of T_values is <= 0 or a computed integral is <= 0; they never return a
\* value computed from the logarithm of a non-positive number.
C5_FitRejectsNonPositive ==
    (pc # "idle" /\ call.op \in {"fit_C", "analyze_oscillation"}
        /\ \E i \in 1..Len(call.T_values) :
              \/ LeInt(call.T_values[i], 0)
              \/ LeInt(wmse_calculate_I(wmse, call.T_values[i], call.sigma), 0))
    => result.k = "raise"

\* C6: psi is non-decreasing below 1000: for 0 <= x1 < x2 < 1000 the value at
\* x1 is at most the value at x2, and what was added at x1 is a sub-multiset
\* of what is added at x2.
C6_PsiNonDecreasing ==
    (pc # "idle" /\ call.op = "psi" /\ FLt(call.x, FromInt(1000)))
    => \A x1 \in XInputs :
          (FLe(Zero, x1) /\ FLt(x1, call.x))
          => LET before == Apply("psi", << chebyshev, x1 >>)
             IN  /\ FLe(before.val, result.val)
                 /\ \A q \in Elements(before.logs) :
                        CountIn(before.logs, q) <= CountIn(result.logs, q)

\* C6 witness: psi has been evaluated just above the switch at 2 and its
\* value, ln 2, is above the constant 0 returned for every x1 < 2.
C6_Witness ==
    /\ pc = "returned" /\ call.op = "psi" /\ call.x = X(5)
    /\ result.logs = << 2 >> /\ FGt(result.val, Zero)
    /\ Apply("psi", << chebyshev, X(3) >>).val = Zero

\* C7: integrand is 0 for x <= 0 and a finite number >= 0 for x > 0, T > 0;
\* calculate_I with T > 0 is a finite number >= 0, and with the limit left
\* out it is the sum over the five segments of [0, 5 T].
C7_IntegralNonNegative ==
    /\ (pc # "idle" /\ call.op = "integrand" /\ LeInt(call.x, 0)) => result = Zero
    /\ (pc # "idle" /\ call.op = "integrand" /\ GtInt(call.x, 0) /\ GtInt(call.T, 0))
       => (result.k = "fin" /\ result.m >= 0)
    /\ (pc # "idle" /\ call.op = "calculate_I" /\ GtInt(call.T, 0))
       => /\ result.k = "fin" /\ result.m >= 0
          /\ call.limit.none =>
                result = split_integral(wmse, Zero, FMul(FromInt(5), call.T), 5,
                                        call.T, call.sigma, 0, Zero)

\* C7 witness: calculate_I(2, 0.5) with the default limit has returned a
\* positive number.
C7_Witness ==
    /\ pc = "returned" /\ call.op = "calculate_I"
    /\ call.T = FromInt(2) /\ call.sigma = HalfF /\ call.limit.none
    /\ result.k = "fin" /\ result.m > 0

\* the relative tolerance of the round trip
RelTol == Fin(10000000, -12)

\* |a - b| <= RelTol * |b|
WithinTol(a, b) == FLe(FAbs(FSub(a, b)), FMul(FAbs(b), RelTol))

\* the premise of the round trip: a synthetic generator C0 * T^(1 - 2 sigma)
\* with C0 > 0, and a non-empty T_values of positive entries
RoundTripCall(op) ==
    /\ pc # "idle" /\ call.op = op
    /\ generator.kind = "synthetic" /\ GtInt(generator.C0, 0)
    /\ Len(call.T_values) > 0 /\ AllPositive(call.T_values)

\* C8 (as stated): on integrals that are exactly C0 * T^(1 - 2 sigma), fit_C
\* returns C0 and every oscillation is 0.
C8_RoundTripExact ==
    /\ RoundTripCall("fit_C") => result = generator.C0
    /\ RoundTripCall("analyze_oscillation")
       => (result.k = "list"
           /\ \A i \in 1..Len(call.T_values) : IsZero(result.items[i]))

\* C8 (amended): on such integrals fit_C returns C0 to within the relative
\* tolerance, and every oscillation is a number in [0, tolerance].
C8_RoundTripWithinTolerance ==
    /\ RoundTripCall("fit_C") => WithinTol(result, generator.C0)
    /\ RoundTripCall("analyze_oscillation")
       => (result.k = "list"
           /\ \A i \in 1..Len(call.T_values) :
                 FLe(Zero, result.items[i]) /\ FLe(result.items[i], RelTol))

\* C8 witness: fit_C has returned from three samples of a generator with
\* C0 = 7.3, with a value that is not C0 itself.
C8_Witness ==
    /\ RoundTripCall("fit_C") /\ pc = "returned"
    /\ generator.C0 = Fin(73000000, -7) /\ Len(call.T_values) = 3
    /\ result.k = "fin" /\ result # generator.C0

\* C9: for x >= 1000 the ordinates that contribute a term are exactly the
\* entries of the zero list with gamma <= min(x, 1000), in list order.
C9_EarlyStopSkipsNothing ==
    (pc # "idle" /\ call.op = "psi" /\ FGe(call.x, FromInt(1000)))
    => LET Tp == IF FLt(call.x, FromInt(1000)) THEN call.x ELSE FromInt(1000)
           Within(g) == FLe(g, Tp)
       IN  result.used = SelectSeq(gamma_values, Within)

\* C9 witness: the explicit formula has run for x = 1001 over ordinates that
\* include one below its predecessor in the list.
C9_Witness ==
    /\ pc = "returned" /\ call.op = "psi" /\ call.x = FromInt(1001)
    /\ Len(result.used) = 100
    /\ \E i \in 1..99 : FLt(result.used[i + 1], result.used[i])

\* C10: the zero list is the one built at construction in every state, with
\* its 100 entries in their order, and a call repeated with the same
\* arguments returns what it returned the first time.
C10_ZeroListReadOnly ==
    /\ gamma_values = _get_approximate_gamma_values
    /\ Len(gamma_values) = 100
    /\ pc = "repeated" => again = result

\* C10 witness: a psi call that reads the zero list has been repeated.
C10_Witness ==
    /\ pc = "repeated" /\ call.op = "psi" /\ call.x = FromInt(5000)
    /\ Len(result.used) = 100 /\ again = result

=============================================================================
